---------------------------- MODULE Spec2Model ----------------------------
(* NPS accounting application (src/app.py): the storage adapter, the      *)
(* ledger reads, the dashboard rollups and the save handlers, as a state  *)
(* machine.  A run of main() is init_db, then the selected page; the next *)
(* user interaction reruns main().                                        *)
(* Text values are tuples of one-character strings so that strip(),       *)
(* truthiness and sorting are computed, not assumed.  Amounts are         *)
(* naturals.  A table is a bag of rows (row ids are never read by the     *)
(* rollups).                                                               *)
EXTENDS Integers, Sequences, FiniteSets, Bags, TLC

VARIABLES
    USE_NEON,     \* backend selected at start-up (app.py:24)
    pc,           \* where the current run of main() stands
    projects,     \* table projects  (a set of rows: project_code is UNIQUE)
    invoices,     \* table invoices  (bag of rows)
    cash_book,    \* table cash_book (bag of rows)
    debts_fixed,  \* table debts_fixed (bag of rows)
    accounts,     \* table accounts  (a set of rows: code is UNIQUE)
    files,        \* invoice attachment folder: set of <<directory, file name>>
    touched,      \* backends this process has opened a connection to
    unclosed,     \* connections this run of main() opened and has not closed
    view          \* what the last operation showed / handed to the driver

vars == <<USE_NEON, pc, projects, invoices, cash_book, debts_fixed,
          accounts, files, touched, unclosed, view>>

tables == <<projects, invoices, cash_book, debts_fixed, accounts>>

-----------------------------------------------------------------------------
(* Bounds of the model *)

MaxRows == 2      \* rows over all tables together
MaxAmount == 2    \* largest amount a form submits
MaxLen == 3       \* longest query template, in tokens
MaxProjects == 6  \* most projects in a ranked summary

-----------------------------------------------------------------------------
(* Text *)

\* SQL NULL / Python None in a text column
NULL == <<"NULL">>

\* pandas NaN in a numeric column of a merged frame; a present value v is <<v>>
NaN == {}

\* characters in ascending code-point order
Chars == <<" ", "1", "A", "B">>

CharRank(c) == CHOOSE i \in 1..Len(Chars) : Chars[i] = c

RECURSIVE lstrip(_)
lstrip(s) == IF s # <<>> /\ Head(s) = " " THEN lstrip(Tail(s)) ELSE s

RECURSIVE rstrip(_)
rstrip(s) ==
    IF s # <<>> /\ s[Len(s)] = " " THEN rstrip(SubSeq(s, 1, Len(s) - 1)) ELSE s

\* str.strip()
strip(s) == lstrip(rstrip(s))

\* Python truthiness of a str
truthy(s) == s # <<>>

\* x.strip() or None
strip_or_None(s) == IF truthy(strip(s)) THEN strip(s) ELSE NULL

\* Python's < on str
RECURSIVE LexLess(_, _)
LexLess(s, t) ==
    IF t = <<>> THEN FALSE
    ELSE IF s = <<>> THEN TRUE
    ELSE IF Head(s) = Head(t) THEN LexLess(Tail(s), Tail(t))
    ELSE CharRank(Head(s)) < CharRank(Head(t))

\* sorted(codes)
RECURSIVE sorted(_)
sorted(S) ==
    IF S = {} THEN <<>>
    ELSE LET m == CHOOSE x \in S : \A y \in S \ {x} : LexLess(x, y)
         IN <<m>> \o sorted(S \ {m})

-----------------------------------------------------------------------------
(* Form inputs *)

\* what a user types into a text_input for a code
CodeInputs == {<<>>, <<" ">>, <<"A">>, <<" ", "B">>}

\* number_input(min_value=0.0)
Amounts == 0..MaxAmount

InvoiceStatuses == {"Draft", "Paid"}
DebtTypes == {"Debt", "Fixed Asset"}
AccountTypes == {"Asset", "Expense"}
InvoiceNoInputs == {<<>>, <<"1">>}
AccountCodeInputs == {<<"1">>}

\* the project codes typed on the invoice forms that carry an attachment
UploadCodeInputs == {<<>>}

\* environment faults an operation can meet (at most one per operation)
NoFault == {[kind |-> "none", table |-> "-"]}
AnyFault ==
    NoFault
    \cup {[kind |-> k, table |-> "-"] : k \in {"connect", "execute", "commit"}}
    \cup {[kind |-> "read", table |-> t] :
             t \in {"projects", "invoices", "cash_book", "debts_fixed",
                    "accounts"}}

\* the fault is one the operation can meet: none, one of `kinds`, or a failed
\* read of one of the tables it reads
Meets(fault, kinds, reads) ==
    \/ fault.kind = "none"
    \/ fault.kind \in kinds
    \/ fault.kind = "read" /\ fault.table \in reads

Backend == IF USE_NEON THEN "neon" ELSE "sqlite"

\* Optional values: Python None is the empty set, a present value x is {x}
None == {}
Some(x) == {x}
the(o) == CHOOSE x \in o : TRUE

-----------------------------------------------------------------------------
(* Storage adapter *)

\* get_conn with a fallback to the embedded database (not what the code does)
get_conn_fallback(fault) ==
    IF USE_NEON /\ fault.kind # "connect"
    THEN [ok |-> TRUE, backend |-> "neon"]
    ELSE [ok |-> TRUE, backend |-> "sqlite"]

\* get_conn(): the connection it returns, or ok = FALSE when it raises
get_conn(fault) ==
    IF USE_NEON
    THEN IF fault.kind = "connect"
         THEN [ok |-> FALSE, backend |-> "none"]      \* st.error(...); raise
         ELSE [ok |-> TRUE, backend |-> "neon"]
    ELSE IF fault.kind = "connect"
         THEN [ok |-> FALSE, backend |-> "none"]      \* sqlite3.connect raises
         ELSE [ok |-> TRUE, backend |-> "sqlite"]

\* the backends a set of get_conn results has opened
Opened(conns) == {c.backend : c \in {x \in conns : x.ok}}

\* str.replace("?", "%s") on a template given as tokens; "?" is one token
replace(sql) == [i \in 1..Len(sql) |-> IF sql[i] = "?" THEN "%s" ELSE sql[i]]

\* a cursor wrapper that forgets the translation
execute_untranslated(sql, params) == sql

\* NeonCompatCursor.execute: the text the psycopg2 cursor receives
NeonCompatCursor_execute(sql, params) ==
    IF params # None THEN replace(sql) ELSE sql

\* NeonCompatCursor.executemany: the text the psycopg2 cursor receives
NeonCompatCursor_executemany(sql, seq_of_params) == replace(sql)

\* conn.cursor().execute(sql, params): the text the driver of `backend` receives
cursor_execute(backend, sql, params) ==
    IF backend = "neon" THEN NeonCompatCursor_execute(sql, params) ELSE sql

\* conn.cursor().executemany(sql, seq)
cursor_executemany(backend, sql, seq_of_params) ==
    IF backend = "neon" THEN NeonCompatCursor_executemany(sql, seq_of_params)
    ELSE sql

Count(sql, tok) == Cardinality({i \in 1..Len(sql) : sql[i] = tok})

\* whether the engine behind `backend` runs the text it received: sqlite3 binds
\* "?", psycopg2 binds "%s", and INSERT OR REPLACE is SQLite-only syntax
DriverAccepts(backend, sent) ==
    IF backend = "neon"
    THEN Count(sent, "?") = 0 /\ Count(sent, "INSERT OR REPLACE INTO") = 0
    ELSE Count(sent, "%s") = 0

\* "<verb> <table> (...) VALUES (?, ..., ?)" with n placeholders
InsertSql(verb, table, n) == <<verb, table>> \o [i \in 1..n |-> "?"]

-----------------------------------------------------------------------------
(* Ledger reads *)

\* df_from_query(sql): raised = the exception of get_conn escapes;
\* failed = the query raised, was reported with st.error and an empty
\* DataFrame was returned.  The connection is closed in the finally block.
df_from_query(table, rows, fault) ==
    LET conn == get_conn(fault) IN
    IF ~conn.ok
    THEN [raised |-> TRUE, failed |-> FALSE, df |-> EmptyBag, conn |-> conn,
          unclosed |-> 0]
    ELSE IF fault.kind = "read" /\ fault.table = table
    THEN [raised |-> FALSE, failed |-> TRUE, df |-> EmptyBag, conn |-> conn,
          unclosed |-> 0]
    ELSE [raised |-> FALSE, failed |-> FALSE, df |-> rows, conn |-> conn,
          unclosed |-> 0]

\* a set of rows (a table with a UNIQUE key) as a DataFrame
AsBag(S) == SetToBag(S)

\* df.empty
empty(df) == df = EmptyBag

RECURSIVE SumRows(_, _, _)
SumRows(S, df, col) ==
    IF S = {} THEN 0
    ELSE LET r == CHOOSE x \in S : TRUE
         IN df[r] * r[col] + SumRows(S \ {r}, df, col)

\* df[col].sum()
sum(df, col) == SumRows(DOMAIN df, df, col)

\* debts_df[debts_df["type"] == t]
where_type(df, t) == [r \in {x \in DOMAIN df : x.type = t} |-> df[r]]

\* the rows of one groupby("project_code") group
where_code(df, c) == [r \in {x \in DOMAIN df : x.project_code = c} |-> df[r]]

\* str.lower() on the values a status column holds
lower(status) ==
    CASE status = "Paid" -> "paid"
      [] status = "PAID" -> "paid"
      [] status = "Draft" -> "draft"
      [] OTHER -> status

\* a paid mask that compares the status as stored
where_paid_exact(df) == [r \in {x \in DOMAIN df : x.status = "Paid"} |-> df[r]]

\* inv_df.loc[paid_mask]
where_paid(df) == [r \in {x \in DOMAIN df : lower(x.status) = "paid"} |-> df[r]]


-----------------------------------------------------------------------------
(* Dashboard (page_dashboard): company totals, ratios, alerts *)

\* a quotient a / b kept exact
Ratio(a, b) == [num |-> a, den |-> b]

\* an alert block whose two net cash checks are independent ifs
Alerts_independent(net_cash, total_debts, debt_to_assets, collection_ratio) ==
    LET a0 == IF net_cash < 0 THEN <<"critical: net cash negative">> ELSE <<>>
        a1 == IF net_cash < total_debts /\ total_debts > 0
              THEN <<"warning: net cash below debts">> ELSE <<>>
        a2 == IF debt_to_assets # None
                 /\ the(debt_to_assets).num > the(debt_to_assets).den
              THEN <<"warning: debt/assets > 1">> ELSE <<>>
        a3 == IF collection_ratio # None
                 /\ the(collection_ratio).num < 70 * the(collection_ratio).den
              THEN <<"warning: collection < 70%">> ELSE <<>>
        any == a0 \o a1 \o a2 \o a3
    IN IF any = <<>> THEN <<"ok">> ELSE any

\* an alert block that warns already at debt/assets = 1
Alerts_at_one(net_cash, total_debts, debt_to_assets, collection_ratio) ==
    LET a1 == IF net_cash < 0 THEN <<"critical: net cash negative">>
              ELSE IF net_cash < total_debts /\ total_debts > 0
                   THEN <<"warning: net cash below debts">>
                   ELSE <<>>
        a2 == IF debt_to_assets # None
                 /\ the(debt_to_assets).num >= the(debt_to_assets).den
              THEN <<"warning: debt/assets > 1">> ELSE <<>>
        a3 == IF collection_ratio # None
                 /\ the(collection_ratio).num < 70 * the(collection_ratio).den
              THEN <<"warning: collection < 70%">> ELSE <<>>
        any == a1 \o a2 \o a3
    IN IF any = <<>> THEN <<"ok">> ELSE any

\* an alert block without the final "no alerts" message
Alerts_no_ok(net_cash, total_debts, debt_to_assets, collection_ratio) ==
    LET a1 == IF net_cash < 0 THEN <<"critical: net cash negative">>
              ELSE IF net_cash < total_debts /\ total_debts > 0
                   THEN <<"warning: net cash below debts">>
                   ELSE <<>>
        a2 == IF debt_to_assets # None
                 /\ the(debt_to_assets).num > the(debt_to_assets).den
              THEN <<"warning: debt/assets > 1">> ELSE <<>>
        a3 == IF collection_ratio # None
                 /\ the(collection_ratio).num < 70 * the(collection_ratio).den
              THEN <<"warning: collection < 70%">> ELSE <<>>
    IN a1 \o a2 \o a3

\* the alert block of page_dashboard, in display order
Alerts(net_cash, total_debts, debt_to_assets, collection_ratio) ==
    LET a1 == IF net_cash < 0 THEN <<"critical: net cash negative">>
              ELSE IF net_cash < total_debts /\ total_debts > 0
                   THEN <<"warning: net cash below debts">>
                   ELSE <<>>
        a2 == IF debt_to_assets # None
                 /\ the(debt_to_assets).num > the(debt_to_assets).den
              THEN <<"warning: debt/assets > 1">> ELSE <<>>
        a3 == IF collection_ratio # None
                 /\ the(collection_ratio).num < 70 * the(collection_ratio).den
              THEN <<"warning: collection < 70%">> ELSE <<>>
        any == a1 \o a2 \o a3
    IN IF any = <<>> THEN <<"ok">> ELSE any

Dashboard(inv_df, cash_df, debts_df) ==
    LET total_invoices == IF ~empty(inv_df) THEN sum(inv_df, "amount") ELSE 0
        total_debit == IF ~empty(cash_df) THEN sum(cash_df, "debit") ELSE 0
        total_credit == IF ~empty(cash_df) THEN sum(cash_df, "credit") ELSE 0
        net_cash == total_debit - total_credit
        total_debts ==
            IF ~empty(debts_df)
            THEN sum(where_type(debts_df, "Debt"), "amount") ELSE 0
        total_assets ==
            IF ~empty(debts_df)
            THEN sum(where_type(debts_df, "Fixed Asset"), "amount")
            ELSE 0
        debt_to_assets ==
            IF total_assets > 0 THEN Some(Ratio(total_debts, total_assets))
            ELSE None
        cash_coverage ==
            IF total_debts > 0 THEN Some(Ratio(net_cash, total_debts)) ELSE None
        paid_amount ==
            sum(where_paid(inv_df), "amount")
        collection_ratio ==
            IF ~empty(inv_df) /\ total_invoices > 0
            THEN Some(Ratio(paid_amount * 100, total_invoices)) ELSE None
    IN [built |-> TRUE,
        total_invoices |-> total_invoices,
        total_debit |-> total_debit,
        total_credit |-> total_credit,
        net_cash |-> net_cash,
        total_debts |-> total_debts,
        total_assets |-> total_assets,
        debt_to_assets |-> debt_to_assets,
        cash_coverage |-> cash_coverage,
        collection_ratio |-> collection_ratio,
        alerts |-> Alerts(net_cash, total_debts, debt_to_assets,
                          collection_ratio)]

-----------------------------------------------------------------------------
(* Owners Dashboard (page_owners_dashboard): per-project rollup *)

\* df[col].dropna().astype(str).tolist(), guarded by "not df.empty"
codes_of(df) ==
    IF ~empty(df) THEN {r.project_code : r \in DOMAIN df} \ {NULL} ELSE {}

\* a code collection that forgets the cash book
collect_codes_no_cash(proj_df, inv_df, cash_df, debts_df) ==
    codes_of(proj_df) \cup codes_of(inv_df) \cup codes_of(debts_df)

\* the set `codes` (lines 653-661)
collect_codes(proj_df, inv_df, cash_df, debts_df) ==
    codes_of(proj_df) \cup codes_of(inv_df) \cup codes_of(cash_df)
        \cup codes_of(debts_df)

\* df.groupby("project_code")[col].sum(): rows with a null key are dropped
groupby_sum(df, col) ==
    [c \in {r.project_code : r \in DOMAIN df} \ {NULL} |->
        sum(where_code(df, c), col)]

\* summary.merge(grp, on="project_code", how="left"): the merged cell
merge_left(code, grp) == IF code \in DOMAIN grp THEN Some(grp[code]) ELSE NaN

\* Series.fillna(0.0) on one cell
fillna(cell) == IF cell = NaN THEN 0 ELSE the(cell)

\* a net cash column with the wrong sign on cash_out
net_cash_added(cash_in, cash_out) == cash_in + cash_out

\* summary["net_cash"] (line 721)
net_cash_col(cash_in, cash_out) == cash_in - cash_out

\* an estimated profit taken against cash_in
est_profit_cash_in(revenue, cash_in, cash_out) == revenue - cash_in

\* summary["est_profit"] (line 722)
est_profit_col(revenue, cash_in, cash_out) == revenue - cash_out

\* a margin computed for positive revenue only
safe_margin_positive(rev, prof) ==
    IF rev > 0 THEN Some(Ratio(prof * 100, rev)) ELSE None

\* safe_margin(row): "if rev and rev != 0"; a number is truthy when nonzero
safe_margin(rev, prof) ==
    IF (rev # 0) /\ rev # 0 THEN Some(Ratio(prof * 100, rev)) ELSE None

\* one row of `summary` after the merges, fillna and the derived columns;
\* contract_value is the cell merged from proj_info (None: no such column)
summary_row(code, contract_value, inv_df, cash_df, debts_df) ==
    LET revenue ==
            IF ~empty(inv_df)
            THEN fillna(merge_left(code, groupby_sum(inv_df, "amount"))) ELSE 0
        cash_in ==
            IF ~empty(cash_df)
            THEN fillna(merge_left(code, groupby_sum(cash_df, "debit"))) ELSE 0
        cash_out ==
            IF ~empty(cash_df)
            THEN fillna(merge_left(code, groupby_sum(cash_df, "credit"))) ELSE 0
        debts ==
            IF ~empty(debts_df)
            THEN fillna(merge_left(code,
                     groupby_sum(where_type(debts_df, "Debt"), "amount")))
            ELSE 0
        assets ==
            IF ~empty(debts_df)
            THEN fillna(merge_left(code,
                     groupby_sum(where_type(debts_df, "Fixed Asset"),
                                 "amount")))
            ELSE 0
        net_cash == net_cash_col(cash_in, cash_out)
        est_profit == est_profit_col(revenue, cash_in, cash_out)
    IN [project_code |-> code,
        revenue |-> revenue,
        cash_in |-> cash_in,
        cash_out |-> cash_out,
        debts |-> debts,
        assets |-> assets,
        contract_value |-> contract_value,
        net_cash |-> net_cash,
        est_profit |-> est_profit,
        profit_margin |-> safe_margin(revenue, est_profit)]

\* the contract_value cells that summary.merge(proj_info, how="left") gives
\* the summary row of `code`: one per matching project row, or one NaN
RECURSIVE proj_cells(_, _)
proj_cells(S, proj_df) ==
    IF S = {} THEN <<>>
    ELSE LET r == CHOOSE x \in S : TRUE
         IN [i \in 1..proj_df[r] |-> Some(fillna(Some(r.contract_value)))]
              \o proj_cells(S \ {r}, proj_df)

merge_proj_info(code, proj_df) ==
    IF empty(proj_df) THEN <<None>>
    ELSE LET match == {r \in DOMAIN proj_df : r.project_code = code}
         IN IF match = {} THEN <<Some(fillna(NaN))>>
            ELSE proj_cells(match, proj_df)

\* the rows of `summary`, in the order of sorted(codes)
RECURSIVE summary_rows(_, _, _, _, _)
summary_rows(order, proj_df, inv_df, cash_df, debts_df) ==
    IF order = <<>> THEN <<>>
    ELSE LET cells == merge_proj_info(Head(order), proj_df)
         IN [i \in 1..Len(cells) |->
               summary_row(Head(order), cells[i], inv_df, cash_df, debts_df)]
              \o summary_rows(Tail(order), proj_df, inv_df, cash_df, debts_df)

RECURSIVE SeqSum(_, _)
SeqSum(rows, col) ==
    IF rows = <<>> THEN 0 ELSE Head(rows)[col] + SeqSum(Tail(rows), col)

\* page_owners_dashboard after its four reads
Owners(proj_df, inv_df, cash_df, debts_df) ==
    LET codes == collect_codes(proj_df, inv_df, cash_df, debts_df)
        order == sorted(codes)
        summary == summary_rows(order, proj_df, inv_df, cash_df, debts_df)
        total_revenue == SeqSum(summary, "revenue")
        total_profit == SeqSum(summary, "est_profit")
        total_debts == SeqSum(summary, "debts")
        total_assets == SeqSum(summary, "assets")
        total_net_cash == SeqSum(summary, "net_cash")
    IN IF empty(proj_df) /\ empty(inv_df) /\ empty(cash_df) /\ empty(debts_df)
       THEN [info |-> "No financial data yet.", built |-> FALSE]
       ELSE IF codes = {}
       THEN [info |-> "No project codes found.", built |-> FALSE]
       ELSE [info |-> "", built |-> TRUE,
             summary |-> summary,
             total_revenue |-> total_revenue,
             total_profit |-> total_profit,
             total_debts |-> total_debts,
             total_assets |-> total_assets,
             total_net_cash |-> total_net_cash,
             total_projects |-> Len(summary),
             overall_margin |->
                 IF total_revenue > 0
                 THEN Some(Ratio(total_profit * 100, total_revenue)) ELSE None,
             debt_to_assets |->
                 IF total_assets > 0
                 THEN Some(Ratio(total_debts, total_assets)) ELSE None,
             cash_coverage |->
                 IF total_debts > 0
                 THEN Some(Ratio(total_net_cash, total_debts)) ELSE None]


-----------------------------------------------------------------------------
(* State *)

TotalRows ==
    Cardinality(projects) + BagCardinality(invoices)
        + BagCardinality(cash_book) + BagCardinality(debts_fixed)
        + Cardinality(accounts)

\* what an operation that shows nothing of interest leaves on the page
BlankView ==
    [page |-> "", raised |-> FALSE, failed |-> {}, out |-> [built |-> FALSE],
     submitted |-> FALSE, msg |-> "", template |-> <<>>, sent |-> <<>>,
     backend |-> "none", conn_failed |-> FALSE, method |-> "",
     step |-> "none", row |-> None]

Init ==
    /\ USE_NEON \in BOOLEAN
    /\ pc = "main"
    /\ projects = {}
    /\ invoices = EmptyBag
    /\ cash_book = EmptyBag
    /\ debts_fixed = EmptyBag
    /\ accounts = {}
    /\ files = {}
    /\ touched = {}
    /\ unclosed = 0
    /\ view = [BlankView EXCEPT !.page = "start"]

-----------------------------------------------------------------------------
(* init_db *)

\* init_db(): line 124 opens a connection through get_conn; the Neon branch
\* commits and closes it (269-270); the SQLite branch opens a second
\* connection at 278 and closes only that one (414-415).
init_db(fault) ==
    /\ pc = "main"
    /\ Meets(fault, {"connect"}, {})
    /\ LET conn == get_conn(fault) IN
       /\ touched' = touched \cup Opened({conn})
                        \cup (IF conn.ok /\ ~USE_NEON THEN {"sqlite"} ELSE {})
       /\ pc' = IF conn.ok THEN "page" ELSE "done"
       /\ unclosed' = IF ~conn.ok THEN 0 ELSE IF USE_NEON THEN 0 ELSE 1
       /\ view' = [BlankView EXCEPT !.page = "init_db", !.raised = ~conn.ok,
                                    !.backend = conn.backend,
                                    !.conn_failed = (fault.kind = "connect")]
    /\ UNCHANGED <<USE_NEON, tables, files>>

\* the next user interaction: Streamlit runs main() again on a fresh page
rerun ==
    /\ pc = "done"
    /\ pc' = "main"
    /\ view' = [BlankView EXCEPT !.page = "start"]
    /\ unclosed' = 0
    /\ UNCHANGED <<USE_NEON, tables, files, touched>>

-----------------------------------------------------------------------------
(* Read-only pages *)

page_dashboard(fault) ==
    /\ pc = "page"
    /\ pc' = "done"
    /\ Meets(fault, {"connect"}, {"invoices", "cash_book", "debts_fixed"})
    /\ LET inv == df_from_query("invoices", invoices, fault)
           cash == df_from_query("cash_book", cash_book, fault)
           debts == df_from_query("debts_fixed", debts_fixed, fault)
           reads == {inv, cash, debts}
           raised == \E r \in reads : r.raised
       IN
       /\ touched' = touched \cup Opened({r.conn : r \in reads})
       /\ unclosed' = unclosed + inv.unclosed + cash.unclosed + debts.unclosed
       /\ view' = [BlankView EXCEPT
                     !.page = "Dashboard",
                     !.conn_failed = (fault.kind = "connect"),
                     !.backend = inv.conn.backend,
                     !.raised = raised,
                     !.failed = {t \in {"invoices", "cash_book", "debts_fixed"} :
                                   fault.kind = "read" /\ fault.table = t
                                   /\ ~raised},
                     !.out = IF raised THEN [built |-> FALSE]
                             ELSE Dashboard(inv.df, cash.df, debts.df)]
    /\ UNCHANGED <<USE_NEON, tables, files>>

page_owners_dashboard(fault) ==
    /\ pc = "page"
    /\ pc' = "done"
    /\ Meets(fault, {"connect"},
             {"projects", "invoices", "cash_book", "debts_fixed"})
    /\ LET proj == df_from_query("projects", AsBag(projects), fault)
           inv == df_from_query("invoices", invoices, fault)
           cash == df_from_query("cash_book", cash_book, fault)
           debts == df_from_query("debts_fixed", debts_fixed, fault)
           reads == {proj, inv, cash, debts}
           raised == \E r \in reads : r.raised
       IN
       /\ touched' = touched \cup Opened({r.conn : r \in reads})
       /\ unclosed' = unclosed + proj.unclosed + inv.unclosed + cash.unclosed
                        + debts.unclosed
       /\ view' = [BlankView EXCEPT
                     !.page = "Owners Dashboard",
                     !.conn_failed = (fault.kind = "connect"),
                     !.backend = proj.conn.backend,
                     !.raised = raised,
                     !.failed = {t \in {"projects", "invoices", "cash_book",
                                        "debts_fixed"} :
                                   fault.kind = "read" /\ fault.table = t
                                   /\ ~raised},
                     !.out = IF raised THEN [built |-> FALSE]
                             ELSE Owners(proj.df, inv.df, cash.df, debts.df)]
    /\ UNCHANGED <<USE_NEON, tables, files>>


\* a read that takes the rows it returns out of the table
rows_after_read_consuming(rows) == EmptyBag

\* what a table holds after pd.read_sql_query ran a SELECT on it: the
\* connection is closed without a commit and the statement writes nothing
rows_after_read(rows) == rows

\* df_from_query("SELECT * FROM <table> WHERE project_code = ?", (code,)):
\* the template goes through the adapter cursor with its parameter tuple
select_where(table, rows, code, fault) ==
    LET conn == get_conn(fault)
        sent == cursor_execute(conn.backend,
                               <<"SELECT", table, "WHERE", "?">>,
                               Some(<<code>>))
    IN IF ~conn.ok
       THEN [raised |-> TRUE, failed |-> FALSE, df |-> EmptyBag, conn |-> conn,
             unclosed |-> 0]
       ELSE IF ~DriverAccepts(conn.backend, sent)
               \/ (fault.kind = "read" /\ fault.table = table)
       THEN [raised |-> FALSE, failed |-> TRUE, df |-> EmptyBag, conn |-> conn,
             unclosed |-> 0]
       ELSE [raised |-> FALSE, failed |-> FALSE, df |-> where_code(rows, code),
             conn |-> conn, unclosed |-> 0]

\* project totals that forget the type filter on debts_df
ProjectDashboard_all_types(code, inv_df, cash_df, debts_df) ==
    LET cash_in == IF ~empty(cash_df) THEN sum(cash_df, "debit") ELSE 0
        cash_out == IF ~empty(cash_df) THEN sum(cash_df, "credit") ELSE 0
    IN [built |-> TRUE,
        project_code |-> code,
        total_revenue |-> IF ~empty(inv_df) THEN sum(inv_df, "amount") ELSE 0,
        cash_in |-> cash_in,
        cash_out |-> cash_out,
        net_cash |-> cash_in - cash_out,
        debts |-> IF ~empty(debts_df) THEN sum(debts_df, "amount") ELSE 0]

\* the totals of page_project_dashboard (lines 835-839)
ProjectDashboard(code, inv_df, cash_df, debts_df) ==
    LET cash_in == IF ~empty(cash_df) THEN sum(cash_df, "debit") ELSE 0
        cash_out == IF ~empty(cash_df) THEN sum(cash_df, "credit") ELSE 0
    IN [built |-> TRUE,
        project_code |-> code,
        total_revenue |-> IF ~empty(inv_df) THEN sum(inv_df, "amount") ELSE 0,
        cash_in |-> cash_in,
        cash_out |-> cash_out,
        net_cash |-> cash_in - cash_out,
        debts |-> IF ~empty(debts_df)
                  THEN sum(where_type(debts_df, "Debt"), "amount") ELSE 0]

\* page_project_dashboard: `sel` is the option picked in the select box,
\* None when the page returns before showing it
page_project_dashboard(sel, fault) ==
    /\ pc = "page"
    /\ pc' = "done"
    /\ Meets(fault, {"connect"},
             {"projects", "invoices", "cash_book", "debts_fixed"})
    /\ LET proj == df_from_query("projects", AsBag(projects), fault)
           options == {r.project_code : r \in DOMAIN proj.df}
           shown == ~proj.raised /\ ~empty(proj.df)
           code == the(sel)
           go == shown /\ truthy(code) /\ code # NULL
           inv == select_where("invoices", invoices, code, fault)
           cash == select_where("cash_book", cash_book, code, fault)
           debts == select_where("debts_fixed", debts_fixed, code, fault)
       IN
       /\ IF shown THEN sel # None /\ code \in options ELSE sel = None
       /\ touched' = touched \cup Opened({proj.conn})
                        \cup (IF go THEN Opened({inv.conn, cash.conn,
                                                 debts.conn})
                              ELSE {})
       /\ unclosed' = unclosed + proj.unclosed
                        + (IF go THEN inv.unclosed + cash.unclosed
                                       + debts.unclosed
                           ELSE 0)
       /\ view' = [BlankView EXCEPT
                     !.page = "Project Dashboard",
                     !.conn_failed = (fault.kind = "connect"),
                     !.backend = proj.conn.backend,
                     !.raised = proj.raised,
                     !.failed =
                        (IF proj.failed THEN {"projects"} ELSE {})
                          \cup (IF go /\ inv.failed THEN {"invoices"} ELSE {})
                          \cup (IF go /\ cash.failed THEN {"cash_book"} ELSE {})
                          \cup (IF go /\ debts.failed
                                THEN {"debts_fixed"} ELSE {}),
                     !.out = IF go
                             THEN ProjectDashboard(code, inv.df, cash.df,
                                                   debts.df)
                             ELSE [built |-> FALSE]]
       /\ invoices' = rows_after_read(invoices)
       /\ cash_book' = rows_after_read(cash_book)
       /\ debts_fixed' = rows_after_read(debts_fixed)
    /\ UNCHANGED <<USE_NEON, projects, accounts, files>>

\* the summary of page_reports (lines 1417-1425); the Excel export below it
\* writes to a buffer in memory
Reports(inv_df, cash_df, debts_df) ==
    LET total_debit == IF ~empty(cash_df) THEN sum(cash_df, "debit") ELSE 0
        total_credit == IF ~empty(cash_df) THEN sum(cash_df, "credit") ELSE 0
    IN [built |-> TRUE,
        total_invoices |-> IF ~empty(inv_df) THEN sum(inv_df, "amount") ELSE 0,
        net_cash |-> total_debit - total_credit,
        total_debts |-> IF ~empty(debts_df)
                        THEN sum(where_type(debts_df, "Debt"), "amount")
                        ELSE 0]

page_reports(fault) ==
    /\ pc = "page"
    /\ pc' = "done"
    /\ Meets(fault, {"connect"}, {"invoices", "cash_book", "debts_fixed"})
    /\ LET inv == df_from_query("invoices", invoices, fault)
           cash == df_from_query("cash_book", cash_book, fault)
           debts == df_from_query("debts_fixed", debts_fixed, fault)
           reads == {inv, cash, debts}
           raised == \E r \in reads : r.raised
       IN
       /\ touched' = touched \cup Opened({r.conn : r \in reads})
       /\ unclosed' = unclosed + inv.unclosed + cash.unclosed + debts.unclosed
       /\ view' = [BlankView EXCEPT
                     !.page = "Reports",
                     !.conn_failed = (fault.kind = "connect"),
                     !.backend = inv.conn.backend,
                     !.raised = raised,
                     !.failed = {t \in {"invoices", "cash_book", "debts_fixed"} :
                                   fault.kind = "read" /\ fault.table = t
                                   /\ ~raised},
                     !.out = IF raised THEN [built |-> FALSE]
                             ELSE Reports(inv.df, cash.df, debts.df)]
       /\ invoices' = rows_after_read(invoices)
       /\ cash_book' = rows_after_read(cash_book)
       /\ debts_fixed' = rows_after_read(debts_fixed)
    /\ UNCHANGED <<USE_NEON, projects, accounts, files>>

-----------------------------------------------------------------------------
(* Save handlers *)

\* the try-block of a save handler: get_conn, cursor, execute, commit, close.
\* get_conn is inside the try; conn.close() is reached only after commit.
\* `step` is the call that raised; `msg` is what the handler then shows:
\* st.success follows conn.commit() and conn.close(), the except-branch
\* shows st.error.  First, a handler that reports success before it commits:
save_attempt_early_success(sql, params, fault) ==
    LET conn == get_conn(fault)
        sent == cursor_execute(conn.backend, sql, Some(params))
    IN IF ~conn.ok
       THEN [conn |-> conn, committed |-> FALSE, unclosed |-> 0, sent |-> <<>>,
             step |-> "connect", msg |-> "failed"]
       ELSE IF ~DriverAccepts(conn.backend, sent) \/ fault.kind = "execute"
       THEN [conn |-> conn, committed |-> FALSE, unclosed |-> 1, sent |-> sent,
             step |-> "execute", msg |-> "failed"]
       ELSE IF fault.kind = "commit"
       THEN [conn |-> conn, committed |-> FALSE, unclosed |-> 1, sent |-> sent,
             step |-> "commit", msg |-> "saved"]
       ELSE [conn |-> conn, committed |-> TRUE, unclosed |-> 0, sent |-> sent,
             step |-> "none", msg |-> "saved"]

\* the try-block as written
save_attempt(sql, params, fault) ==
    LET conn == get_conn(fault)
        sent == cursor_execute(conn.backend, sql, Some(params))
    IN IF ~conn.ok
       THEN [conn |-> conn, committed |-> FALSE, unclosed |-> 0, sent |-> <<>>,
             step |-> "connect", msg |-> "failed"]
       ELSE IF ~DriverAccepts(conn.backend, sent) \/ fault.kind = "execute"
       THEN [conn |-> conn, committed |-> FALSE, unclosed |-> 1, sent |-> sent,
             step |-> "execute", msg |-> "failed"]
       ELSE IF fault.kind = "commit"
       THEN [conn |-> conn, committed |-> FALSE, unclosed |-> 1, sent |-> sent,
             step |-> "commit", msg |-> "failed"]
       ELSE [conn |-> conn, committed |-> TRUE, unclosed |-> 0, sent |-> sent,
             step |-> "none", msg |-> "saved"]

\* the view a save handler leaves: rejected by validation, saved or failed
SaveView(page, submitted, valid, sql, att, raised, failed, fault) ==
    [BlankView EXCEPT
       !.page = page,
       !.conn_failed = (fault.kind = "connect"),
       !.submitted = submitted,
       !.raised = raised,
       !.failed = failed,
       !.msg = IF ~submitted THEN ""
               ELSE IF ~valid THEN "rejected"
               ELSE att.msg,
       !.step = IF submitted /\ valid THEN att.step ELSE "none",
       !.template = IF submitted /\ valid /\ att.conn.ok THEN sql ELSE <<>>,
       !.sent = IF submitted /\ valid THEN att.sent ELSE <<>>,
       !.backend = IF submitted /\ valid THEN att.conn.backend ELSE "none"]

\* a cash validation that lets the entry without an amount through
cash_entry_valid_lenient(debit, credit) == ~(debit > 0 /\ credit > 0)

\* the two st.error branches before the try-block of page_cash (880-885)
cash_entry_valid(debit, credit) ==
    ~(debit > 0 /\ credit > 0) /\ ~(debit = 0 /\ credit = 0)

\* page_cash: the entry list below the form reads with its own connection,
\* closed only when the read succeeds (lines 919-935)
page_cash(submitted, project_code, debit, credit, fault) ==
    /\ pc = "page"
    /\ pc' = "done"
    /\ Meets(fault, {"connect", "execute", "commit"}, {"cash_book"})
    /\ LET valid == cash_entry_valid(debit, credit)
           sql == InsertSql("INSERT INTO", "cash_book", 9)
           row == [project_code |-> strip_or_None(project_code),
                   debit |-> debit, credit |-> credit]
           params == <<"date", row.project_code, "description", "method",
                       "ref_no", debit, credit, "account_type", "remarks">>
           att == save_attempt(sql, params, fault)
           run == submitted /\ valid
           list_conn == get_conn(fault)
           list_failed == list_conn.ok /\ fault.kind = "read"
                            /\ fault.table = "cash_book"
       IN
       /\ run => TotalRows < MaxRows
       /\ cash_book' = IF run /\ att.committed
                       THEN cash_book (+) SetToBag({row}) ELSE cash_book
       /\ touched' = touched \cup Opened({list_conn})
                        \cup (IF run THEN Opened({att.conn}) ELSE {})
       /\ unclosed' = unclosed + (IF run THEN att.unclosed ELSE 0)
                        + (IF list_failed THEN 1 ELSE 0)
       /\ view' = SaveView("Cash Book", submitted, valid, sql, att, FALSE,
                           IF list_failed THEN {"cash_book"} ELSE {},
                           fault)
    /\ UNCHANGED <<USE_NEON, projects, invoices, debts_fixed,
                   accounts, files>>

page_projects(submitted, project_code, contract_value, fault) ==
    /\ pc = "page"
    /\ pc' = "done"
    /\ Meets(fault, {"connect", "execute", "commit"}, {"projects"})
    /\ LET valid == truthy(project_code)
           sql == InsertSql("INSERT OR REPLACE INTO", "projects", 8)
           row == [project_code |-> strip(project_code),
                   contract_value |-> contract_value]
           params == <<row.project_code, "name", "client_name", "location",
                       contract_value, "start_date", "status", "project_type">>
           att == save_attempt(sql, params, fault)
           run == submitted /\ valid
           list == df_from_query("projects", AsBag(projects), fault)
       IN
       /\ run => TotalRows < MaxRows
       /\ projects' = IF run /\ att.committed
                      THEN {r \in projects :
                              r.project_code # row.project_code} \cup {row}
                      ELSE projects
       /\ touched' = touched \cup Opened({list.conn})
                        \cup (IF run THEN Opened({att.conn}) ELSE {})
       /\ unclosed' = unclosed + (IF run THEN att.unclosed ELSE 0) + list.unclosed
       /\ view' = [SaveView("Projects", submitted, valid, sql, att,
                             list.raised,
                             IF list.failed THEN {"projects"} ELSE {},
                             fault)
                      EXCEPT !.row = IF run THEN Some(row) ELSE None]
    /\ UNCHANGED <<USE_NEON, invoices, cash_book, debts_fixed,
                   accounts, files>>

\* invoice_no.replace("/", "-").replace("\\", "-")
safe_invoice(invoice_no) ==
    [i \in 1..Len(invoice_no) |->
        IF invoice_no[i] \in {"/", "\\"} THEN "-" ELSE invoice_no[i]]

\* save_invoice_file: the <<directory, file name>> it writes
save_invoice_file(project_code, invoice_no) ==
    <<IF ~truthy(project_code) THEN <<"GENERAL">> ELSE project_code,
      <<"INV_">> \o safe_invoice(invoice_no)>>

\* an attachment written before the invoice number is looked at
attachment_unchecked(run, up, project_code, invoice_no) ==
    IF up THEN {save_invoice_file(project_code, invoice_no)} ELSE {}

\* the files the handler writes: only in the else-branch of the invoice
\* number check and only when a file was uploaded (1023-1031)
attachment(run, up, project_code, invoice_no) ==
    IF run /\ up THEN {save_invoice_file(project_code, invoice_no)} ELSE {}

page_invoices(submitted, invoice_no, project_code, amount, status, up, fault) ==
    /\ pc = "page"
    /\ pc' = "done"
    /\ Meets(fault, {"connect", "execute", "commit"}, {"invoices"})
    /\ LET valid == truthy(invoice_no)
           sql == InsertSql("INSERT INTO", "invoices", 8)
           row == [invoice_no |-> strip(invoice_no),
                   project_code |-> strip_or_None(project_code),
                   amount |-> amount, status |-> status]
           params == <<row.invoice_no, "date", row.project_code, "client_name",
                       "description", amount, status, "remarks">>
           att == save_attempt(sql, params, fault)
           run == submitted /\ valid
           list == df_from_query("invoices", invoices, fault)
       IN
       /\ run => TotalRows < MaxRows
       /\ files' = files \cup attachment(run, up, project_code, invoice_no)
       /\ invoices' = IF run /\ att.committed
                      THEN invoices (+) SetToBag({row}) ELSE invoices
       /\ touched' = touched \cup Opened({list.conn})
                        \cup (IF run THEN Opened({att.conn}) ELSE {})
       /\ unclosed' = unclosed + (IF run THEN att.unclosed ELSE 0) + list.unclosed
       /\ view' = SaveView("Invoices", submitted, valid, sql, att, list.raised,
                           IF list.failed THEN {"invoices"} ELSE {},
                           fault)
    /\ UNCHANGED <<USE_NEON, projects, cash_book, debts_fixed,
                   accounts>>

page_debts_fixed(submitted, dtype, project_code, amount, fault) ==
    /\ pc = "page"
    /\ pc' = "done"
    /\ Meets(fault, {"connect", "execute", "commit"}, {"debts_fixed"})
    /\ LET sql == InsertSql("INSERT INTO", "debts_fixed", 6)
           row == [type |-> dtype,
                   project_code |-> strip_or_None(project_code),
                   amount |-> amount]
           params == <<dtype, "name", row.project_code, amount, "start_date",
                       "remarks">>
           att == save_attempt(sql, params, fault)
           list == df_from_query("debts_fixed", debts_fixed, fault)
       IN
       /\ submitted => TotalRows < MaxRows
       /\ debts_fixed' = IF submitted /\ att.committed
                         THEN debts_fixed (+) SetToBag({row}) ELSE debts_fixed
       /\ touched' = touched \cup Opened({list.conn})
                        \cup (IF submitted THEN Opened({att.conn}) ELSE {})
       /\ unclosed' = unclosed + (IF submitted THEN att.unclosed ELSE 0) + list.unclosed
       /\ view' = SaveView("Debts & Fixed", submitted, TRUE, sql, att,
                           list.raised,
                           IF list.failed THEN {"debts_fixed"} ELSE {},
                           fault)
    /\ UNCHANGED <<USE_NEON, projects, invoices, cash_book,
                   accounts, files>>

page_accounts(submitted, code, atype, fault) ==
    /\ pc = "page"
    /\ pc' = "done"
    /\ Meets(fault, {"connect", "execute", "commit"}, {"accounts"})
    /\ LET sql == InsertSql("INSERT OR REPLACE INTO", "accounts", 3)
           row == [code |-> strip(code), type |-> atype]
           params == <<row.code, "name", atype>>
           att == save_attempt(sql, params, fault)
           list == df_from_query("accounts", AsBag(accounts), fault)
       IN
       /\ submitted => TotalRows < MaxRows
       /\ accounts' = IF submitted /\ att.committed
                      THEN {r \in accounts : r.code # row.code} \cup {row}
                      ELSE accounts
       /\ touched' = touched \cup Opened({list.conn})
                        \cup (IF submitted THEN Opened({att.conn}) ELSE {})
       /\ unclosed' = unclosed + (IF submitted THEN att.unclosed ELSE 0) + list.unclosed
       /\ view' = SaveView("Accounts", submitted, TRUE, sql, att, list.raised,
                           IF list.failed THEN {"accounts"} ELSE {},
                           fault)
    /\ UNCHANGED <<USE_NEON, projects, invoices, cash_book,
                   debts_fixed, files>>

-----------------------------------------------------------------------------
(* Specifications *)

\* one run of the application under the environment fault f: init_db, a
\* page that only reads, a form page shown without its button pressed, or a
\* form page submitted with the values typed into it
Step(f, codes, amounts) ==
    \/ init_db(f)
    \/ page_dashboard(f)
    \/ page_owners_dashboard(f)
    \/ page_cash(FALSE, <<>>, 0, 0, f)
    \/ page_projects(FALSE, <<>>, 0, f)
    \/ page_invoices(FALSE, <<>>, <<>>, 0, "Draft", FALSE, f)
    \/ page_debts_fixed(FALSE, "Debt", <<>>, 0, f)
    \/ page_accounts(FALSE, <<>>, "Asset", f)
    \/ \E c \in codes, d \in amounts, cr \in amounts :
          page_cash(TRUE, c, d, cr, f)
    \/ \E c \in codes, v \in amounts :
          page_projects(TRUE, c, v, f)
    \/ \E n \in InvoiceNoInputs, c \in codes, a \in amounts,
          st \in InvoiceStatuses, up \in BOOLEAN :
          (up => c \in UploadCodeInputs) /\ page_invoices(TRUE, n, c, a, st, up, f)
    \/ \E t \in DebtTypes, c \in codes, a \in amounts :
          page_debts_fixed(TRUE, t, c, a, f)
    \/ \E c \in AccountCodeInputs, t \in AccountTypes :
          page_accounts(TRUE, c, t, f)

\* what the select box of the Project Dashboard can hand to the page
Selections == {None} \cup {Some(strip(c)) : c \in CodeInputs}

\* the database is reachable and every statement the engine accepts succeeds
Next ==
    \/ rerun
    \/ \E f \in NoFault : Step(f, CodeInputs, Amounts)
    \/ \E f \in NoFault, sel \in Selections : page_project_dashboard(sel, f)
    \/ \E f \in NoFault : page_reports(f)

Spec == Init /\ [][Next]_vars

\* the form values submitted while the environment fails: a failed attempt
\* leaves the tables as they were whatever was typed, so one blank and one
\* non-blank code and the amounts 0 and 1 cover its branches
FaultCodeInputs == {<<>>, <<"A">>}
FaultAmounts == {0, 1}

\* a connection attempt, a read, an insert or a commit may fail
FaultNext ==
    \/ rerun
    \/ \E f \in NoFault : Step(f, CodeInputs, Amounts)
    \/ \E f \in AnyFault \ NoFault : Step(f, FaultCodeInputs, FaultAmounts)

FaultSpec == Init /\ [][FaultNext]_vars

-----------------------------------------------------------------------------
(* The dashboards over a ledger that already exists.  init_db creates the *)
(* tables only IF NOT EXISTS and the schema (lines 282-330) constrains    *)
(* neither the sign of an amount nor the spelling of a status, so the     *)
(* application starts on whatever rows the database file or the Neon      *)
(* database holds.  Invoice amounts are signed (credit notes); cash and   *)
(* debt rows are the ones the forms can have written.                     *)

\* invoices.amount REAL: amounts of either sign
LedgerAmounts == (0 - MaxAmount)..MaxAmount

LedgerCodes == {NULL, <<"A">>}

\* TEXT column status
LedgerStatuses == {"Draft", "Paid", "PAID"}

InvoiceRows ==
    [invoice_no : {<<"1">>}, project_code : LedgerCodes,
     amount : LedgerAmounts, status : LedgerStatuses]

CashRows ==
    {r \in [project_code : LedgerCodes, debit : Amounts, credit : Amounts] :
       cash_entry_valid(r.debit, r.credit)}

DebtRows == [type : DebtTypes, project_code : LedgerCodes, amount : Amounts]

\* the table holding the rows of a sequence
RECURSIVE BagOf(_)
BagOf(rows) ==
    IF rows = <<>> THEN EmptyBag
    ELSE SetToBag({Head(rows)}) (+) BagOf(Tail(rows))

LedgerInit ==
    /\ USE_NEON \in BOOLEAN
    /\ pc = "main"
    /\ projects = {}
    /\ accounts = {}
    /\ files = {}
    /\ touched = {}
    /\ unclosed = 0
    /\ view = [BlankView EXCEPT !.page = "start"]
    /\ \E ni \in 0..MaxRows : \E nc \in 0..(MaxRows - ni) :
          \E nd \in 0..(MaxRows - ni - nc) :
             \E i \in [1..ni -> InvoiceRows], c \in [1..nc -> CashRows],
                d \in [1..nd -> DebtRows] :
                /\ invoices = BagOf(i)
                /\ cash_book = BagOf(c)
                /\ debts_fixed = BagOf(d)

\* the pages that only read, run again and again on the stored ledger
LedgerNext ==
    \/ rerun
    \/ \E f \in NoFault : init_db(f)
    \/ \E f \in NoFault : page_dashboard(f)
    \/ \E f \in NoFault : page_owners_dashboard(f)

LedgerSpec == LedgerInit /\ [][LedgerNext]_vars

-----------------------------------------------------------------------------
(* The Projects page over a project register that already exists (the     *)
(* projects table outlives the process on either backend)                  *)

ProjectRows == [project_code : {<<"A">>, <<"B">>}, contract_value : Amounts]

RegistryInit ==
    /\ USE_NEON \in BOOLEAN
    /\ pc = "main"
    /\ projects \in {S \in SUBSET ProjectRows :
                       /\ Cardinality(S) < MaxRows
                       /\ \A r1, r2 \in S :
                             r1.project_code = r2.project_code => r1 = r2}
    /\ invoices = EmptyBag
    /\ cash_book = EmptyBag
    /\ debts_fixed = EmptyBag
    /\ accounts = {}
    /\ files = {}
    /\ touched = {}
    /\ unclosed = 0
    /\ view = [BlankView EXCEPT !.page = "start"]

RegistryNext ==
    \/ rerun
    \/ \E f \in NoFault : init_db(f)
    \/ \E f \in NoFault : page_projects(FALSE, <<>>, 0, f)
    \/ \E f \in NoFault, c \in CodeInputs, v \in Amounts :
          page_projects(TRUE, c, v, f)

RegistrySpec == RegistryInit /\ [][RegistryNext]_vars

-----------------------------------------------------------------------------
(* The top-5 lists of the Owners Dashboard on their own: a summary drawn  *)
(* from bounded sets is ranked by one of its columns                      *)

\* head(5)
TopN == 5

\* project codes in ascending order, as sorted(codes) leaves them
TopCodes == <<<<"1">>, <<"A">>, <<"A", "1">>, <<"A", "B">>, <<"B">>, <<"B", "1">>,
              <<"B", "A">>>>

TopAmounts == 0..1

\* a summary of n projects whose revenue column is given; no cash rows
TopSummary(n, revenue) ==
    [i \in 1..n |->
       [project_code |-> TopCodes[i],
        revenue |-> revenue[i],
        cash_out |-> 0,
        est_profit |-> est_profit_col(revenue[i], 0, 0)]]

\* DataFrame.sort_values(col, ascending=False) with the default
\* kind="quicksort", which is not stable: every order of the rows that is
\* descending in col is a possible result
sort_values(rows, col) ==
    {[i \in 1..Len(rows) |-> rows[p[i]]] :
       p \in {q \in Permutations(1..Len(rows)) :
                \A i \in 1..(Len(rows) - 1) :
                   rows[q[i]][col] >= rows[q[i + 1]][col]}}

\* DataFrame.head(n)
head(rows, n) == SubSeq(rows, 1, IF Len(rows) < n THEN Len(rows) ELSE n)

TopInit ==
    /\ USE_NEON = FALSE
    /\ pc = "rank"
    /\ projects = {}
    /\ invoices = EmptyBag
    /\ cash_book = EmptyBag
    /\ debts_fixed = EmptyBag
    /\ accounts = {}
    /\ files = {}
    /\ touched = {}
    /\ unclosed = 0
    /\ \E n \in 0..MaxProjects : \E revenue \in [1..n -> TopAmounts] :
          view = [BlankView EXCEPT
                    !.page = "summary",
                    !.out = [built |-> TRUE,
                             summary |-> TopSummary(n, revenue)]]

\* top = summary.sort_values(col, ascending=False).head(5)
top_list(col) ==
    /\ pc = "rank"
    /\ pc' = "ranked"
    /\ \E order \in sort_values(view.out.summary, col) :
          view' = [view EXCEPT
                     !.page = "top",
                     !.method = col,
                     !.out = [built |-> TRUE,
                              summary |-> view.out.summary,
                              top |-> head(order, TopN)]]
    /\ UNCHANGED <<USE_NEON, tables, files, touched, unclosed>>

TopNext ==
    \/ top_list("est_profit")
    \/ top_list("revenue")

TopSpec == TopInit /\ [][TopNext]_vars

-----------------------------------------------------------------------------
(* The adapter cursor on its own: templates and parameters drawn from     *)
(* bounded sets and handed to execute / executemany                       *)

\* the pieces of a query template: the placeholder and text without one
Tokens == {"?", "SELECT", "WHERE"}

Templates == UNION {[1..n -> Tokens] : n \in 0..MaxLen}

\* the parameter tuple a caller passes with a template
ParamsFor(sql) == [i \in 1..Count(sql, "?") |-> "v"]

InitAdapter ==
    /\ USE_NEON \in BOOLEAN
    /\ pc = "cursor"
    /\ projects = {}
    /\ invoices = EmptyBag
    /\ cash_book = EmptyBag
    /\ debts_fixed = EmptyBag
    /\ accounts = {}
    /\ files = {}
    /\ touched = {}
    /\ unclosed = 0
    /\ view = [BlankView EXCEPT !.page = "start"]

CursorView(method, sql, sent) ==
    [BlankView EXCEPT !.page = "cursor", !.method = method, !.template = sql,
                      !.sent = sent, !.backend = Backend]

\* cur.execute(sql, params); a call without params carries no placeholder
dispatch_execute(sql, params) ==
    /\ pc = "cursor"
    /\ params = None => Count(sql, "?") = 0
    /\ view' = CursorView("execute", sql, cursor_execute(Backend, sql, params))
    /\ UNCHANGED <<USE_NEON, pc, tables, files, touched, unclosed>>

\* cur.executemany(sql, seq_of_params)
dispatch_executemany(sql, seq_of_params) ==
    /\ pc = "cursor"
    /\ view' = CursorView("executemany", sql,
                          cursor_executemany(Backend, sql, seq_of_params))
    /\ UNCHANGED <<USE_NEON, pc, tables, files, touched, unclosed>>

AdapterNext ==
    \/ \E sql \in Templates, p \in {TRUE, FALSE} :
          dispatch_execute(sql, IF p THEN Some(ParamsFor(sql)) ELSE None)
    \/ \E sql \in Templates :
          dispatch_executemany(sql, <<ParamsFor(sql), ParamsFor(sql)>>)

AdapterSpec == InitAdapter /\ [][AdapterNext]_vars

-----------------------------------------------------------------------------
(* Claims *)

ReadPages == {"Dashboard", "Owners Dashboard"}
SavePages == {"Cash Book", "Projects", "Invoices", "Debts & Fixed", "Accounts"}

\* the Owners Dashboard has run and its reads returned
OwnersShown == view.page = "Owners Dashboard" /\ ~view.raised

\* the per-project summary it built (no rows when it stopped at a notice)
OwnersSummary == IF view.out.built THEN view.out.summary ELSE <<>>

\* sum of column col over those rows of table B that are in the set S
RECURSIVE Total(_, _, _)
Total(B, S, col) ==
    IF S = {} THEN 0
    ELSE LET r == CHOOSE x \in S : TRUE
         IN (IF BagIn(r, B) THEN CopiesIn(r, B) * r[col] ELSE 0)
              + Total(B, S \ {r}, col)

\* the rows of table B stored under project code c
Under(B, c) == {r \in BagToSet(B) : r.project_code = c}

\* the non-null project codes stored in each table
CodesIn(B) == {r.project_code : r \in BagToSet(B)} \ {NULL}
StoredCodes ==
    {r.project_code : r \in projects} \cup CodesIn(invoices)
        \cup CodesIn(cash_book) \cup CodesIn(debts_fixed)

\* C1: if a table read made while building a dashboard summary fails, the
\* rollup fails and the error reaches the caller; no summary is shown in
\* which the failed read counts as an empty table.
C1_FailedReadFailsRollup ==
    (view.page \in ReadPages /\ view.failed # {})
        => (view.raised /\ ~view.out.built)

\* C2: every connection an operation opens is closed before the operation
\* returns; no connection remains open after init_db or after a page.
C2_EveryConnectionClosed == unclosed = 0

\* C3: with the networked backend selected, a failed connection attempt is
\* raised to the caller of get_conn, no connection is returned in its place,
\* and the process never opens the embedded database.
C3_NoFallbackToEmbedded ==
    USE_NEON =>
        /\ "sqlite" \notin touched
        /\ view.conn_failed =>
              /\ view.backend = "none"
              /\ view.page \in ReadPages \cup {"init_db"} => view.raised
              /\ view.page \in SavePages => view.msg # "saved"

C3_Witness ==
    /\ USE_NEON
    /\ view.page = "Dashboard"
    /\ view.conn_failed
    /\ view.raised
    /\ touched = {"neon"}

\* C4: a template dispatched to the networked backend through the adapter
\* cursor (execute or executemany) reaches the driver with every "?"
\* replaced by "%s", as many "%s" as the template has "?", and the rest of
\* the text unchanged; on the embedded backend it reaches the driver as is.
C4_PlaceholdersTranslated ==
    view.page = "cursor" =>
        IF view.backend = "neon"
        THEN /\ Count(view.sent, "?") = 0
             /\ Count(view.sent, "%s") = Count(view.template, "?")
             /\ Len(view.sent) = Len(view.template)
             /\ \A i \in 1..Len(view.template) :
                   view.template[i] # "?" => view.sent[i] = view.template[i]
        ELSE view.sent = view.template

C4_Witness ==
    /\ view.page = "cursor"
    /\ view.backend = "neon"
    /\ view.method = "execute"
    /\ Count(view.template, "?") = 2
    /\ Count(view.sent, "%s") = 2

\* whether the engine of `backend` runs the statement a save handler sends
Runs(backend, sql) ==
    DriverAccepts(backend, cursor_execute(backend, sql, Some(ParamsFor(sql))))

\* C5: a save run with the same inputs from the same table contents ends the
\* same way on the embedded and on the networked backend: the statement
\* that was just sent commits here exactly if it commits on the other one.
C5_SameOutcomeOnBothBackends ==
    (view.page \in SavePages /\ view.template # <<>>) =>
        /\ Runs("sqlite", view.template) = Runs("neon", view.template)
        /\ (view.msg = "saved") = Runs("sqlite", view.template)
        /\ (view.msg = "saved") = Runs("neon", view.template)

\* C6: the per-project summary of the Owners Dashboard has exactly one row
\* for every distinct non-null project code stored in projects, invoices,
\* cash_book or debts_fixed and no other row; a code stored only in
\* cash_book has revenue 0, debts 0 and assets 0.
C6_OneRowPerStoredCode ==
    OwnersShown =>
        /\ {OwnersSummary[i].project_code : i \in 1..Len(OwnersSummary)}
              = StoredCodes
        /\ Len(OwnersSummary) = Cardinality(StoredCodes)
        /\ \A i \in 1..Len(OwnersSummary) :
              LET c == OwnersSummary[i].project_code IN
              (c \in CodesIn(cash_book)
                 /\ c \notin ({r.project_code : r \in projects}
                                \cup CodesIn(invoices) \cup CodesIn(debts_fixed)))
                => /\ OwnersSummary[i].revenue = 0
                   /\ OwnersSummary[i].debts = 0
                   /\ OwnersSummary[i].assets = 0

C6_Witness ==
    /\ OwnersShown
    /\ view.out.built
    /\ Len(OwnersSummary) = 2
    /\ \E i \in 1..Len(OwnersSummary) :
          /\ OwnersSummary[i].project_code \in CodesIn(cash_book)
          /\ OwnersSummary[i].project_code \notin
                ({r.project_code : r \in projects} \cup CodesIn(invoices)
                   \cup CodesIn(debts_fixed))

\* C7: a source row whose project code is null or blank (empty or only
\* whitespace) never produces a row of the per-project summary.
C7_NoRowForBlankCode ==
    OwnersShown =>
        \A i \in 1..Len(OwnersSummary) :
            /\ OwnersSummary[i].project_code # NULL
            /\ strip(OwnersSummary[i].project_code) # <<>>

\* C8: the company totals of the Owners Dashboard include the rows whose
\* project code is null: they equal the totals the main Dashboard computes
\* over all rows of the same tables.
C8_OwnersTotalsEqualDashboard ==
    (OwnersShown /\ view.out.built) =>
        LET d == Dashboard(invoices, cash_book, debts_fixed) IN
        /\ view.out.total_revenue = d.total_invoices
        /\ view.out.total_net_cash = d.net_cash
        /\ view.out.total_debts = d.total_debts
        /\ view.out.total_assets = d.total_assets
        /\ view.out.debt_to_assets = d.debt_to_assets
        /\ view.out.cash_coverage = d.cash_coverage

\* C9: for every project code of the per-project summary, revenue is the
\* sum of its invoice amounts, cash_in the sum of its cash debits, cash_out
\* the sum of its cash credits, debts the sum of its amounts of type Debt,
\* assets the sum of its amounts of type Fixed Asset, and the estimated
\* profit is revenue - cash_out.
C9_PerProjectSums ==
    OwnersShown =>
        \A i \in 1..Len(OwnersSummary) :
            LET row == OwnersSummary[i]
                c == row.project_code
            IN /\ row.revenue
                    = Total(invoices, Under(invoices, c), "amount")
               /\ row.cash_in
                    = Total(cash_book, Under(cash_book, c), "debit")
               /\ row.cash_out
                    = Total(cash_book, Under(cash_book, c), "credit")
               /\ row.debts
                    = Total(debts_fixed,
                            {r \in Under(debts_fixed, c) : r.type = "Debt"},
                            "amount")
               /\ row.assets
                    = Total(debts_fixed,
                            {r \in Under(debts_fixed, c) :
                               r.type = "Fixed Asset"},
                            "amount")
               /\ row.est_profit = row.revenue - row.cash_out

C9_Witness ==
    /\ OwnersShown
    /\ \E i \in 1..Len(OwnersSummary) :
          /\ OwnersSummary[i].cash_in > 0
          /\ OwnersSummary[i].cash_out > OwnersSummary[i].cash_in
          /\ OwnersSummary[i].est_profit < 0

\* the per-row identity and the company identity of C10
NetCashIdentities ==
    /\ \A i \in 1..Len(OwnersSummary) :
          OwnersSummary[i].net_cash
            = OwnersSummary[i].cash_in - OwnersSummary[i].cash_out
    /\ Dashboard(invoices, cash_book, debts_fixed).net_cash
         = Total(cash_book, BagToSet(cash_book), "debit")
             - Total(cash_book, BagToSet(cash_book), "credit")

\* C10 as stated: every per-project row has net_cash = cash_in - cash_out,
\* the company net cash is total cash in minus total cash out, and it
\* equals the sum of the per-project net_cash values.
C10_CompanyNetCashIsSumOfProjects ==
    OwnersShown =>
        /\ NetCashIdentities
        /\ Dashboard(invoices, cash_book, debts_fixed).net_cash
             = SeqSum(OwnersSummary, "net_cash")

\* C10 amended: every per-project row has net_cash = cash_in - cash_out, the
\* company net cash is total cash in minus total cash out, and it equals the
\* sum of the per-project net_cash values plus the net cash (debit - credit)
\* of the cash rows whose project code is null.
C10_CompanyNetCashIsProjectsPlusNull ==
    OwnersShown =>
        /\ NetCashIdentities
        /\ Dashboard(invoices, cash_book, debts_fixed).net_cash
             = SeqSum(OwnersSummary, "net_cash")
                 + Total(cash_book, Under(cash_book, NULL), "debit")
                 - Total(cash_book, Under(cash_book, NULL), "credit")

C10_Witness ==
    /\ OwnersShown
    /\ view.out.built
    /\ \E r \in BagToSet(cash_book) : r.project_code = NULL /\ r.credit > 0
    /\ \E i \in 1..Len(OwnersSummary) : OwnersSummary[i].net_cash > 0

-----------------------------------------------------------------------------
(* Margins, ratios and alerts *)

\* the Dashboard has run and its reads returned
DashShown == view.page = "Dashboard" /\ ~view.raised

\* company totals taken directly over the stored rows
StoredRevenue == Total(invoices, BagToSet(invoices), "amount")
StoredPaid ==
    Total(invoices,
          {r \in BagToSet(invoices) : r.status \in {"Paid", "PAID", "paid"}},
          "amount")
StoredDebts ==
    Total(debts_fixed, {r \in BagToSet(debts_fixed) : r.type = "Debt"},
          "amount")
StoredAssets ==
    Total(debts_fixed, {r \in BagToSet(debts_fixed) : r.type = "Fixed Asset"},
          "amount")
StoredNetCash ==
    Total(cash_book, BagToSet(cash_book), "debit")
        - Total(cash_book, BagToSet(cash_book), "credit")

\* C11: a project's profit margin is 100 * estimated_profit / revenue when
\* its revenue is greater than 0 and null for every other revenue value,
\* negative revenue included.
C11_MarginOnlyForPositiveRevenue ==
    OwnersShown =>
        \A i \in 1..Len(OwnersSummary) :
            LET row == OwnersSummary[i] IN
            IF row.revenue > 0
            THEN row.profit_margin
                   = Some(Ratio(100 * row.est_profit, row.revenue))
            ELSE row.profit_margin = None

\* C12: a project's profit margin is null if and only if its revenue is 0;
\* for every nonzero revenue it is 100 * estimated_profit / revenue.
C12_MarginNullIffZeroRevenue ==
    OwnersShown =>
        \A i \in 1..Len(OwnersSummary) :
            LET row == OwnersSummary[i] IN
            /\ (row.profit_margin = None) <=> (row.revenue = 0)
            /\ row.revenue # 0 =>
                  row.profit_margin
                    = Some(Ratio(100 * row.est_profit, row.revenue))

C12_Witness ==
    /\ OwnersShown
    /\ \E i \in 1..Len(OwnersSummary) :
          /\ OwnersSummary[i].revenue < 0
          /\ OwnersSummary[i].profit_margin # None
          /\ OwnersSummary[i].est_profit < OwnersSummary[i].revenue

\* C13: debt_to_assets is null exactly when total assets is 0,
\* cash_coverage exactly when total debts is 0, the collection ratio
\* exactly when the total invoiced revenue is 0 (on the Dashboard and on
\* the Owners Dashboard).
C13_RatioNullIffZeroDenominator ==
    /\ DashShown =>
          /\ (view.out.debt_to_assets = None) <=> (StoredAssets = 0)
          /\ (view.out.cash_coverage = None) <=> (StoredDebts = 0)
          /\ (view.out.collection_ratio = None) <=> (StoredRevenue = 0)
    /\ (OwnersShown /\ view.out.built) =>
          /\ (view.out.debt_to_assets = None) <=> (view.out.total_assets = 0)
          /\ (view.out.cash_coverage = None) <=> (view.out.total_debts = 0)

\* C14: when non-null, debt_to_assets = total_debts / total_assets,
\* cash_coverage = net_cash / total_debts and the collection ratio is
\* 100 * (amounts of the invoices whose status is Paid in any letter case)
\* / total invoiced amount; every other invoice counts in the denominator
\* only.
C14_RatioValues ==
    DashShown =>
        /\ view.out.debt_to_assets # None =>
              the(view.out.debt_to_assets) = Ratio(StoredDebts, StoredAssets)
        /\ view.out.cash_coverage # None =>
              the(view.out.cash_coverage) = Ratio(StoredNetCash, StoredDebts)
        /\ view.out.collection_ratio # None =>
              the(view.out.collection_ratio)
                = Ratio(100 * StoredPaid, StoredRevenue)

C14_Witness ==
    /\ DashShown
    /\ view.out.collection_ratio # None
    /\ \E r \in BagToSet(invoices) : r.status = "PAID" /\ r.amount > 0
    /\ \E r \in BagToSet(invoices) : r.status = "Draft" /\ r.amount > 0

\* how often an alert occurs in the alert output
Occurs(alerts, a) == Cardinality({i \in 1..Len(alerts) : alerts[i] = a})

\* C15: the negative-net-cash critical alert and the net-cash-below-debts
\* warning are never both emitted; when net cash is negative exactly one
\* critical alert is emitted and no below-debts warning, whatever the debts.
C15_NetCashAlertsExclusive ==
    DashShown =>
        LET al == view.out.alerts IN
        /\ ~(Occurs(al, "critical: net cash negative") > 0
               /\ Occurs(al, "warning: net cash below debts") > 0)
        /\ StoredNetCash < 0 =>
              /\ Occurs(al, "critical: net cash negative") = 1
              /\ Occurs(al, "warning: net cash below debts") = 0

C15_Witness ==
    /\ DashShown
    /\ StoredNetCash < 0
    /\ StoredDebts > 0
    /\ StoredNetCash < StoredDebts

\* C16: the alert output is, in this order, the critical alert iff
\* net_cash < 0, the below-debts warning iff net_cash >= 0 and
\* net_cash < total_debts and total_debts > 0, the debt/assets warning iff
\* debt_to_assets is not null and > 1, the collection warning iff the
\* collection ratio is not null and < 70; ok alone iff none of them fired.
C16_AlertsFunctionOfSummary ==
    DashShown =>
        LET o == view.out
            fired ==
                (IF o.net_cash < 0
                 THEN <<"critical: net cash negative">> ELSE <<>>)
                \o (IF o.net_cash >= 0 /\ o.net_cash < o.total_debts
                        /\ o.total_debts > 0
                    THEN <<"warning: net cash below debts">> ELSE <<>>)
                \o (IF o.debt_to_assets # None
                        /\ the(o.debt_to_assets).num
                              > the(o.debt_to_assets).den
                    THEN <<"warning: debt/assets > 1">> ELSE <<>>)
                \o (IF o.collection_ratio # None
                        /\ the(o.collection_ratio).num
                              < 70 * the(o.collection_ratio).den
                    THEN <<"warning: collection < 70%">> ELSE <<>>)
        IN /\ fired # <<>> => o.alerts = fired
           /\ fired = <<>> <=> o.alerts = <<"ok">>

C16_Witness ==
    /\ DashShown
    /\ view.out.alerts = <<"warning: net cash below debts",
                           "warning: debt/assets > 1">>
    /\ view.out.net_cash = 0

\* C17: when no table holds a row, the reads succeed with empty tables,
\* every company total is 0, the three ratios are null and the alert
\* output is the single ok status.
C17_EmptyLedgerAllZero ==
    (view.page = "Dashboard" /\ TotalRows = 0) =>
        /\ ~view.raised
        /\ view.failed = {}
        /\ view.out.built
        /\ view.out.total_invoices = 0
        /\ view.out.total_debit = 0
        /\ view.out.total_credit = 0
        /\ view.out.net_cash = 0
        /\ view.out.total_debts = 0
        /\ view.out.total_assets = 0
        /\ view.out.debt_to_assets = None
        /\ view.out.cash_coverage = None
        /\ view.out.collection_ratio = None
        /\ view.out.alerts = <<"ok">>

C17_Witness ==
    /\ view.page = "Dashboard"
    /\ TotalRows = 0
    /\ view.out.built
    /\ pc = "done"

-----------------------------------------------------------------------------
(* Save handlers: validation *)

\* C18: after any sequence of cash save attempts through the Cash Book
\* page, every row of cash_book has exactly one of debit and credit greater
\* than 0: never both positive and never both zero.
C18_CashRowsDebitXorCredit ==
    \A r \in BagToSet(cash_book) : (r.debit > 0) # (r.credit > 0)

C18_Witness ==
    /\ view.page = "Cash Book"
    /\ view.msg = "saved"
    /\ \E r \in BagToSet(cash_book) : r.debit > 0
    /\ \E r \in BagToSet(cash_book) : r.credit > 0

\* C19: a save attempt that validation rejects opens no connection,
\* executes no insert and leaves every table and the invoice attachment
\* folder unchanged.
C19_RejectedSaveChangesNothing ==
    [][(view'.page \in SavePages /\ view'.msg = "rejected") =>
          /\ tables' = tables
          /\ files' = files
          /\ view'.backend = "none"
          /\ view'.sent = <<>>
          /\ view'.template = <<>>]_vars

C19_Witness ==
    /\ view.page = "Invoices"
    /\ view.msg = "rejected"
    /\ files = {}
    /\ TotalRows = 1

\* C20: after any sequence of save operations no row of projects,
\* cash_book, invoices or debts_fixed has a project_code that is the empty
\* string or only whitespace: a blank optional code is stored as null and a
\* project save whose code is blank is rejected.
C20_NoBlankProjectCode ==
    \A c \in StoredCodes
            \cup {r.project_code : r \in BagToSet(invoices)}
            \cup {r.project_code : r \in BagToSet(cash_book)}
            \cup {r.project_code : r \in BagToSet(debts_fixed)} :
        c = NULL \/ strip(c) # <<>>

-----------------------------------------------------------------------------
(* Project register, read-only pages, failed saves *)

UniqueProjectCodes ==
    \A r1, r2 \in projects : r1.project_code = r2.project_code => r1 = r2

\* C21: after any sequence of project saves, projects holds at most one row
\* per project_code; saving a project whose code already exists replaces
\* that row with the newly entered values instead of adding a second row or
\* failing.
C21_ProjectSaveReplaces ==
    [][/\ UniqueProjectCodes'
       /\ (/\ view'.page = "Projects"
           /\ view'.row # None
           /\ \E r \in projects :
                 r.project_code = the(view'.row).project_code)
          => /\ view'.msg = "saved"
             /\ projects'
                  = {r \in projects :
                       r.project_code # the(view'.row).project_code}
                      \cup view'.row]_vars

DashboardPages ==
    {"Dashboard", "Owners Dashboard", "Project Dashboard", "Reports"}

\* C22: rendering a dashboard or report page (Dashboard, Owners Dashboard,
\* Project Dashboard, Reports) leaves the contents of every table
\* unchanged: its reads insert, update and delete nothing.
C22_ReadPagesChangeNoTable ==
    [][view'.page \in DashboardPages => tables' = tables]_vars

C22_Witness ==
    /\ view.page = "Reports"
    /\ view.out.built
    /\ view.out.total_invoices > 0
    /\ view.out.total_debts > 0

\* the Project Dashboard showed the totals of a project
ProjectShown == view.page = "Project Dashboard" /\ view.out.built

\* C25: for every project code registered in projects, the revenue, cash
\* in, cash out, net cash and debts shown by the Project Dashboard equal the
\* values in that project's row of the Owners Dashboard rollup over the same
\* table contents.
C25_ProjectDashboardMatchesOwners ==
    ProjectShown =>
        LET o == Owners(AsBag(projects), invoices, cash_book, debts_fixed)
            rows == {i \in 1..Len(o.summary) :
                       o.summary[i].project_code = view.out.project_code}
        IN /\ o.built
           /\ rows # {}
           /\ \A i \in rows :
                 /\ o.summary[i].revenue = view.out.total_revenue
                 /\ o.summary[i].cash_in = view.out.cash_in
                 /\ o.summary[i].cash_out = view.out.cash_out
                 /\ o.summary[i].net_cash = view.out.net_cash
                 /\ o.summary[i].debts = view.out.debts

C25_Witness ==
    /\ ProjectShown
    /\ view.out.project_code = <<"B">>
    /\ \E r \in BagToSet(debts_fixed) :
          r.project_code = <<"B">> /\ r.type = "Fixed Asset" /\ r.amount > 0

\* C24: each top-5 list holds the min(5, number of projects) projects with
\* the largest metric value in descending order of the metric, and projects
\* with equal metric values appear in ascending project_code order, also
\* when the tie falls on the cut-off between the 5th and the 6th place.
C24_TopFiveByMetricThenCode ==
    view.page = "top" =>
        LET rows == view.out.summary
            top == view.out.top
            col == view.method
            inTop == {top[i] : i \in 1..Len(top)}
            rest == {rows[i] : i \in 1..Len(rows)} \ inTop
        IN /\ Len(top) = (IF Len(rows) < 5 THEN Len(rows) ELSE 5)
           /\ Cardinality(inTop) = Len(top)
           /\ inTop \subseteq {rows[i] : i \in 1..Len(rows)}
           /\ \A i, j \in 1..Len(top) :
                 i < j =>
                    \/ top[i][col] > top[j][col]
                    \/ /\ top[i][col] = top[j][col]
                       /\ LexLess(top[i].project_code, top[j].project_code)
           /\ \A t \in inTop, r \in rest :
                 \/ t[col] > r[col]
                 \/ /\ t[col] = r[col]
                    /\ LexLess(t.project_code, r.project_code)

\* the pages whose save is a plain INSERT INTO
InsertPages == {"Cash Book", "Invoices", "Debts & Fixed"}

\* C26: a save shows its success message only after its insert has been
\* committed (the row is then in the table); if opening the connection,
\* the insert or the commit raises, no row is added to any table, the
\* failure message is shown instead of the success message and the
\* exception is caught by the handler: nothing escapes the page when the
\* insert or the commit raised, and nothing escapes the Cash Book page.
C26_SuccessOnlyAfterCommit ==
    [][view'.page \in SavePages =>
          /\ view'.msg = "saved" =>
                /\ view'.step = "none"
                /\ view'.page \in InsertPages => TotalRows' = TotalRows + 1
                /\ view'.page = "Projects" => view'.row \subseteq projects'
                /\ view'.page = "Accounts" => accounts' # {}
          /\ view'.step # "none" =>
                /\ tables' = tables
                /\ view'.msg = "failed"
                /\ view'.step \in {"execute", "commit"} => ~view'.raised
                /\ view'.page = "Cash Book" => ~view'.raised]_vars

C26_Witness ==
    /\ view.page = "Invoices"
    /\ view.step = "commit"
    /\ view.msg = "failed"
    /\ ~view.raised
    /\ TotalRows = 1

=============================================================================
